---- MODULE Spec2Model ----
(***************************************************************************)
(* DemoClips Gallery: a Cloudflare Worker (Hono) over a D1 store and the   *)
(* Cloudflare Stream provider.  The model covers the token codec use       *)
(* (session cookies and upload keys), the upload orchestrator and its      *)
(* three entry surfaces, the star / hide / delete / update handlers and    *)
(* the two page reads that filter by visibility.                           *)
(*                                                                         *)
(* Every handler is a sequence of steps, one per awaited store statement   *)
(* or provider call: requests of different clients interleave only there.  *)
(* A request lives in a slot of reqs from its first step to its response,   *)
(* which stays there until the slot takes the next request.                *)
(***************************************************************************)
EXTENDS Integers, Sequences, FiniteSets, TLC

VARIABLES
  now,      \* Date.now() / 1000
  users,    \* the users table: the ids (Google sub) of its rows
  videos,   \* the videos table: its rows
  stars,    \* the stars table: its rows
  issued,   \* the tokens signed with JWT_SECRET so far
  nextId,   \* the provider's next video id, an index of VideoIds
  stream,   \* the ids of the videos the provider reports ready to stream
  reqs,     \* the request of each slot: its position, its locals, its response
  history   \* the upload initiations that inserted a row: who, where, how

vars == <<now, users, videos, stars, issued, nextId, stream, reqs, history>>

----------------------------------------------------------------------------
(* Bounds of the model                                                     *)

\* number of requests that can be in flight together
MaxInflight == 2
\* number of video ids the provider hands out in one behaviour
MaxVideos == 3
\* number of clock advances in one behaviour
MaxTicks == 3
\* number of tokens signed in one behaviour
MaxIssued == 2

Slots == 1..MaxInflight

----------------------------------------------------------------------------
(* Configuration and the values requests carry                             *)

\* exp: Math.floor(Date.now() / 1000) + 86400
TTL == 86400
\* the clock at the start of a behaviour, in seconds
Epoch == 1000
\* c.env.ALLOWED_DOMAIN
ALLOWED_DOMAIN == "ucsc.edu"
\* c.env.MODERATOR_EMAILS.split(","), the entries as written in the variable
MODERATOR_EMAILS == <<"mod@ucsc.edu", " ta@ucsc.edu">>

NoId == ""
\* a NULL duration is the empty sequence, a stored one is <<seconds>>
Null == <<>>

\* what the identity provider can return from /userinfo
IdentityInfos ==
  { [sub |-> "s1", email |-> "s1@ucsc.edu", hd |-> "ucsc.edu"],
    [sub |-> "s2", email |-> "s2@ucsc.edu", hd |-> "ucsc.edu"],
    [sub |-> "m1", email |-> "Mod@UCSC.edu", hd |-> "ucsc.edu"],
    [sub |-> "x1", email |-> "x1@gmail.com", hd |-> ""],
    [sub |-> "x2", email |-> "x2@other.edu", hd |-> "other.edu"] }

\* the ids the provider hands out, in order
VideoIds == <<"v1", "v2", "v3", "v4", "v5">>

CourseIds == {"", "c1"}

\* String.prototype.toLowerCase on the strings of the model
toLowerCase(s) ==
  CASE s = "Mod@UCSC.edu" -> "mod@ucsc.edu"
    [] s = " TA@ucsc.edu" -> " ta@ucsc.edu"
    [] OTHER -> s

\* String.prototype.trim on the strings of the model
trim(s) ==
  CASE s = " ta@ucsc.edu" -> "ta@ucsc.edu"
    [] s = " TA@ucsc.edu" -> "TA@ucsc.edu"
    [] s = " t2 " -> "t2"
    [] OTHER -> s

----------------------------------------------------------------------------
(* Token codec: hono/jwt sign and verify with the one JWT_SECRET            *)

\* A token is its decoded form: wf (three well-formed parts), sig (the
\* signature was made with JWT_SECRET) and the payload.  A session payload has
\* no purpose, courseId or assignmentId: the absent claims are "".
Token(wf, sig, purpose, sub, email, courseId, assignmentId, exp) ==
  [wf |-> wf, sig |-> sig, purpose |-> purpose, sub |-> sub, email |-> email,
   courseId |-> courseId, assignmentId |-> assignmentId, exp |-> exp]

\* no cookie / no key
NoToken == Token(FALSE, FALSE, "", "", "", "", "", 0)

\* sign(payload, JWT_SECRET, "HS256")
sign(purpose, sub, email, courseId, assignmentId, exp) ==
  Token(TRUE, TRUE, purpose, sub, email, courseId, assignmentId, exp)

\* verify without the expiry check
verifyNoExpiry(token, t) == token.wf /\ token.sig

\* hono/jwt verify: throws on a malformed token, a signature mismatch, or
\* (payload.exp && payload.exp <= now); TRUE when it returns the payload
verify(token, t) ==
  /\ token.wf
  /\ token.sig
  /\ ~(token.exp # 0 /\ token.exp <= t)

\* verifyUploadKey without the purpose check
verifyUploadKeyAnyPurpose(token, t) ==
  /\ verify(token, t)
  /\ token.sub # "" /\ token.courseId # "" /\ token.assignmentId # ""

\* verifyUploadKey without the check of the claims it needs
verifyUploadKeyAnyClaims(token, t) ==
  /\ verify(token, t)
  /\ token.purpose = "upload-key"

\* verifyUploadKey: the claims, or null (FALSE here) on any failure
verifyUploadKey(token, t) ==
  /\ verify(token, t)
  /\ token.purpose = "upload-key"
  /\ token.sub # "" /\ token.courseId # "" /\ token.assignmentId # ""

\* the verification left out: any cookie makes a user
softAuthUnverified(token, t) == token # NoToken

\* softAuth: c.var.user is the payload of the session cookie when verify
\* accepts it, null (FALSE here) otherwise
softAuth(token, t) ==
  /\ token # NoToken
  /\ verify(token, t)

\* the list left out: every identity passes for a moderator
isModeratorAnyone(email) == TRUE

\* isModerator(env, user)
isModerator(email) ==
  \E i \in 1..Len(MODERATOR_EMAILS) :
    toLowerCase(trim(MODERATOR_EMAILS[i])) = toLowerCase(email)

----------------------------------------------------------------------------
(* The store (D1): users, videos, stars                                    *)

\* a row that is inserted with a title and a duration
NewVideoRowTitled(id, userId, courseId, assignmentId, t) ==
  [id |-> id, user_id |-> userId, course_id |-> courseId,
   assignment_id |-> assignmentId, title |-> "untitled", description |-> "",
   url |-> "", duration |-> <<0>>, hidden |-> 0, created_at |-> t]

\* a row that is inserted hidden
NewVideoRowHidden(id, userId, courseId, assignmentId, t) ==
  [id |-> id, user_id |-> userId, course_id |-> courseId,
   assignment_id |-> assignmentId, title |-> "", description |-> "",
   url |-> "", duration |-> Null, hidden |-> 1, created_at |-> t]

\* INSERT INTO videos (id, user_id, course_id, assignment_id, title,
\* description, url) VALUES (?, ?, ?, ?, '', '', ''): duration is NULL, hidden
\* defaults to 0 and created_at to datetime('now')
NewVideoRow(id, userId, courseId, assignmentId, t) ==
  [id |-> id, user_id |-> userId, course_id |-> courseId,
   assignment_id |-> assignmentId, title |-> "", description |-> "",
   url |-> "", duration |-> Null, hidden |-> 0, created_at |-> t]

\* the rows of one identity in one gallery
RowsOf(userId, courseId, assignmentId) ==
  { v \in videos : /\ v.user_id = userId
                   /\ v.course_id = courseId
                   /\ v.assignment_id = assignmentId }

\* SELECT ... FROM videos WHERE id = ?
RowsById(id) == { v \in videos : v.id = id }

\* the lookup without its user_id test: any clip of the gallery is taken for
\* the existing one
SelectExistingAnyOwner(userId, courseId, assignmentId) ==
  IF { v \in videos : v.course_id = courseId /\ v.assignment_id = assignmentId } = {}
  THEN {NoId}
  ELSE { v.id : v \in { w \in videos : /\ w.course_id = courseId
                                       /\ w.assignment_id = assignmentId } }

\* SELECT id FROM videos WHERE user_id = ? AND course_id = ? AND
\* assignment_id = ? read with .first(): the ids it can return, NoId for no row
SelectExisting(userId, courseId, assignmentId) ==
  IF RowsOf(userId, courseId, assignmentId) = {}
  THEN {NoId}
  ELSE { v.id : v \in RowsOf(userId, courseId, assignmentId) }

\* the DELETE left out: the row stays
VideosWithoutNoDelete(id) == videos

\* DELETE FROM videos WHERE id = ?
VideosWithout(id) == { v \in videos : v.id # id }

\* the cascade left out: the stars of a deleted video stay
StarsWithoutNoCascade(id) == stars

\* stars.video_id REFERENCES videos(id) ON DELETE CASCADE
StarsWithout(id) == { x \in stars : x.video_id # id }

\* a videos table with UNIQUE (user_id, course_id, assignment_id)
VideoInsertFailsUnique(row) ==
  \/ RowsById(row.id) # {}
  \/ row.user_id \notin users
  \/ RowsOf(row.user_id, row.course_id, row.assignment_id) # {}

\* the constraints of the videos table an INSERT can violate: id TEXT PRIMARY
\* KEY, user_id REFERENCES users(id); there is no unique index on
\* (user_id, course_id, assignment_id)
VideoInsertFails(row) ==
  \/ RowsById(row.id) # {}
  \/ row.user_id \notin users

\* the provider's ready videos after streamAPI(env, `/${id}`, "DELETE"), which
\* can fail
StreamAfterDelete(id, remote) == IF remote = "ok" THEN stream \ {id} ELSE stream

\* SELECT COUNT(*) FROM stars WHERE video_id = ?
StarCount(id) == Cardinality({ x \in stars : x.video_id = id })

Star(userId, videoId) == [user_id |-> userId, video_id |-> videoId]

----------------------------------------------------------------------------
(* Requests                                                                *)

\* an optional field of a JSON body: absent is <<>>, a string x is <<x>>
NoPatch == [title |-> <<>>, description |-> <<>>, url |-> <<>>]

\* the request (op, tok and the parameters courseId, assignmentId, videoId,
\* patch), the handler's position pc and locals (sub, email, via, existing,
\* remote, row, pending), and the response (status, newId, starred, starCount,
\* hidden, results)
Idle ==
  [op |-> "none", pc |-> "idle", status |-> 0, tok |-> NoToken,
   sub |-> "", email |-> "", via |-> "", courseId |-> "", assignmentId |-> "",
   videoId |-> NoId, patch |-> NoPatch, existing |-> NoId, remote |-> "",
   row |-> 0, pending |-> {}, newId |-> NoId, starred |-> FALSE,
   starCount |-> 0, hidden |-> FALSE, results |-> {}]

\* a slot holds no request, or an answered one with its response
Free(s) == reqs[s].pc \in {"idle", "done"}

\* a new request takes the first slot that is free
Accepts(s) == Free(s) /\ \A t \in Slots : t < s => ~Free(t)

\* a request arrives with its credential; sub and email are those of the
\* identity the handler acts for ("" when it has none)
Request(op, tok, sub, email) ==
  [Idle EXCEPT !.op = op, !.tok = tok, !.sub = sub, !.email = email]

\* the handler of slot s, running request r, returns: c.json(..., status),
\* c.redirect(...), c.html(...), new Response(...); its locals go with it
Respond(s, r, status) ==
  reqs' = [reqs EXCEPT ![s] = [r EXCEPT !.pc = "done", !.status = status,
                                        !.existing = NoId, !.remote = "",
                                        !.row = 0, !.pending = {}]]

\* the handler of slot s goes on as r to its next await
Continue(s, r) == reqs' = [reqs EXCEPT ![s] = r]

\* an upload initiation answered with the 201 of the TUS paths or the 200 of
\* the plain path
Succeeded(r) == r.op = "upload" /\ r.pc = "done" /\ r.status \in {200, 201}

----------------------------------------------------------------------------
(* Time                                                                    *)

\* the clock advances of a behaviour: to one second before the expiry of what
\* was signed at Epoch, then second by second
Elapsed == IF now = Epoch THEN 0 ELSE now - Epoch - TTL + 2

\* Date.now() moves on between two steps
Tick ==
  /\ Elapsed < MaxTicks
  /\ now' = IF now = Epoch THEN now + TTL - 1 ELSE now + 1
  /\ UNCHANGED <<users, videos, stars, issued, nextId, stream, reqs, history>>

----------------------------------------------------------------------------
(* auth.ts                                                                 *)

\* the domain check left out: every identity the provider names gets a row
\* and a session
CallbackAnyDomain(s, info) ==
  /\ Accepts(s)
  /\ Cardinality(issued \cup {sign("", info.sub, info.email, "", "", now + TTL)})
       <= MaxIssued
  /\ users' = users \cup {info.sub}
  /\ issued' = issued \cup {sign("", info.sub, info.email, "", "", now + TTL)}
  /\ Respond(s, Request("callback",
                        sign("", info.sub, info.email, "", "", now + TTL),
                        info.sub, info.email), 302)
  /\ UNCHANGED <<now, videos, stars, nextId, stream, history>>

\* GET /auth/callback, after the code exchange: the domain check, the upsert
\* of the users row, the session cookie
Callback(s, info) ==
  /\ Accepts(s)
  /\ IF info.hd # ALLOWED_DOMAIN
     THEN /\ Respond(s, Request("callback", NoToken, info.sub, info.email), 403)
          /\ UNCHANGED <<users, issued>>
     ELSE /\ Cardinality(issued \cup {sign("", info.sub, info.email, "", "", now + TTL)})
               <= MaxIssued
          /\ users' = users \cup {info.sub}
          /\ issued' = issued \cup {sign("", info.sub, info.email, "", "", now + TTL)}
          /\ Respond(s, Request("callback",
                                sign("", info.sub, info.email, "", "", now + TTL),
                                info.sub, info.email), 302)
  /\ UNCHANGED <<now, videos, stars, nextId, stream, history>>

----------------------------------------------------------------------------
(* upload-key.ts: POST /api/create-upload-key                              *)

CreateUploadKey(s, cookie, courseId, assignmentId) ==
  /\ Accepts(s)
  /\ IF ~softAuth(cookie, now)
     THEN /\ Respond(s, Request("createKey", cookie, "", ""), 302)
          /\ UNCHANGED issued
     ELSE IF courseId = "" \/ assignmentId = ""
     THEN /\ Respond(s, Request("createKey", cookie, cookie.sub, cookie.email), 400)
          /\ UNCHANGED issued
     ELSE /\ Cardinality(issued \cup
                 {sign("upload-key", cookie.sub, cookie.email, courseId,
                       assignmentId, now + TTL)}) <= MaxIssued
          /\ issued' = issued \cup
                 {sign("upload-key", cookie.sub, cookie.email, courseId,
                       assignmentId, now + TTL)}
          /\ Respond(s, [Request("createKey", cookie, cookie.sub, cookie.email)
                           EXCEPT !.courseId = courseId,
                                  !.assignmentId = assignmentId], 200)
  /\ UNCHANGED <<now, users, videos, stars, nextId, stream, history>>

----------------------------------------------------------------------------
(* stream.ts: initiateStreamUpload, and the plain path of POST /k/:key       *)

\* what the provider answers to the TUS creation POST: no Location, or a
\* Location with the new video's id in the stream-media-id header, or only as
\* the trailing path segment, with or without a query string
TusOutcomes == {"fail", "header", "segment", "query"}

\* res.headers.get("Location"): the path segments and the query string
Location(outcome, id) ==
  CASE outcome = "header"  -> [path |-> <<"tus", id>>, query |-> ""]
    [] outcome = "segment" -> [path |-> <<"tus", id>>, query |-> ""]
    [] outcome = "query"   -> [path |-> <<"tus", id>>, query |-> "tusv2=true"]
    [] OTHER               -> [path |-> <<>>, query |-> ""]

\* res.headers.get("stream-media-id")
MediaIdHeader(outcome, id) == IF outcome = "header" THEN id ELSE NoId

\* res.headers.get("stream-media-id") ||
\*   location.split("/").pop()?.split("?")[0] || ""
ExtractVideoId(header, location) ==
  IF header # NoId THEN header
  ELSE IF location.path # <<>> THEN location.path[Len(location.path)]
  ELSE NoId

\* what the provider answers to the single-shot POST: success false with its
\* errors, or success with result.uid
PlainOutcomes == {"fail", "uid"}

\* the insert moved before the delete: the request goes on to the provider
\* with the existing row in place
LookupExistingNoDelete(r, existing) ==
  [r EXCEPT !.existing = existing, !.pc = "open"]

\* the first statement of the replace algorithm: the SELECT of the existing
\* row; the request goes on to the delete when there is one
LookupExisting(r, existing) ==
  [r EXCEPT !.existing = existing,
            !.pc = IF existing # NoId THEN "delete" ELSE "open"]

\* api.ts: POST /api/tus-upload up to the first store statement
PostTusUpload(s, cookie, courseId, assignmentId) ==
  /\ Accepts(s)
  /\ IF ~softAuth(cookie, now)
     THEN Respond(s, [Request("upload", cookie, "", "") EXCEPT !.via = "session"], 302)
     ELSE IF courseId = "" \/ assignmentId = ""
     THEN Respond(s, [Request("upload", cookie, cookie.sub, cookie.email)
                        EXCEPT !.via = "session"], 400)
     ELSE \E existing \in SelectExisting(cookie.sub, courseId, assignmentId) :
            Continue(s, LookupExisting(
                          [Request("upload", cookie, cookie.sub, cookie.email)
                             EXCEPT !.via = "session", !.courseId = courseId,
                                    !.assignmentId = assignmentId], existing))
  /\ UNCHANGED <<now, users, videos, stars, issued, nextId, stream, history>>

\* the replace step left out of the plain path: a single-shot upload goes
\* to the provider with the existing row in place
PostKPlainNoReplace(s, key, tus, byteLength) ==
  /\ Accepts(s)
  /\ IF ~verifyUploadKey(key, now)
     THEN Respond(s, [Request("upload", key, "", "") EXCEPT
                        !.via = IF tus THEN "key-tus" ELSE "key-plain"], 401)
     ELSE IF ~tus /\ byteLength = 0
     THEN Respond(s, [Request("upload", key, key.sub, key.email) EXCEPT
                        !.via = "key-plain"], 400)
     ELSE \E existing \in SelectExisting(key.sub, key.courseId, key.assignmentId) :
            Continue(s, LookupExisting(
                          [Request("upload", key, key.sub, key.email)
                             EXCEPT !.via = IF tus THEN "key-tus" ELSE "key-plain",
                                    !.courseId = key.courseId,
                                    !.assignmentId = key.assignmentId],
                          IF tus THEN existing ELSE NoId))
  /\ UNCHANGED <<now, users, videos, stars, issued, nextId, stream, history>>

\* the test of the body left out: an empty single-shot upload goes on
PostKAnyBody(s, key, tus, byteLength) ==
  /\ Accepts(s)
  /\ IF ~verifyUploadKey(key, now)
     THEN Respond(s, [Request("upload", key, "", "") EXCEPT
                        !.via = IF tus THEN "key-tus" ELSE "key-plain"], 401)
     ELSE \E existing \in SelectExisting(key.sub, key.courseId, key.assignmentId) :
            Continue(s, LookupExisting(
                          [Request("upload", key, key.sub, key.email)
                             EXCEPT !.via = IF tus THEN "key-tus" ELSE "key-plain",
                                    !.courseId = key.courseId,
                                    !.assignmentId = key.assignmentId], existing))
  /\ UNCHANGED <<now, users, videos, stars, issued, nextId, stream, history>>

\* upload-key.ts: POST /k/:key up to the first store statement; tus is the
\* presence of the Tus-Resumable header, byteLength the size of the body
PostK(s, key, tus, byteLength) ==
  /\ Accepts(s)
  /\ IF ~verifyUploadKey(key, now)
     THEN Respond(s, [Request("upload", key, "", "") EXCEPT
                        !.via = IF tus THEN "key-tus" ELSE "key-plain"], 401)
     ELSE IF ~tus /\ byteLength = 0
     THEN Respond(s, [Request("upload", key, key.sub, key.email) EXCEPT
                        !.via = "key-plain"], 400)
     ELSE \E existing \in SelectExisting(key.sub, key.courseId, key.assignmentId) :
            Continue(s, LookupExisting(
                          [Request("upload", key, key.sub, key.email)
                             EXCEPT !.via = IF tus THEN "key-tus" ELSE "key-plain",
                                    !.courseId = key.courseId,
                                    !.assignmentId = key.assignmentId], existing))
  /\ UNCHANGED <<now, users, videos, stars, issued, nextId, stream, history>>

\* the delete put off until the new row is in: the request goes to the
\* provider with the existing row in place
ReplaceExistingDeferred(s) ==
  /\ reqs[s].op = "upload" /\ reqs[s].pc = "delete"
  /\ Continue(s, [reqs[s] EXCEPT !.pc = "open"])
  /\ UNCHANGED <<now, users, videos, stars, issued, nextId, stream, history>>

\* if (existing): the best-effort remote delete, whose failure is swallowed,
\* then DELETE FROM videos WHERE id = existing.id
ReplaceExisting(s) ==
  /\ reqs[s].op = "upload" /\ reqs[s].pc = "delete"
  /\ videos' = VideosWithout(reqs[s].existing)
  /\ stars' = StarsWithout(reqs[s].existing)
  /\ \E remote \in {"ok", "failed"} :
       /\ stream' = StreamAfterDelete(reqs[s].existing, remote)
       /\ Continue(s, [reqs[s] EXCEPT !.pc = "open", !.remote = remote])
  /\ UNCHANGED <<now, users, issued, nextId, history>>

\* the missing Location taken for a success: the caller is answered 201
OpenTusChannelUnchecked(s, outcome) ==
  /\ reqs[s].op = "upload" /\ reqs[s].pc = "open"
  /\ reqs[s].via \in {"session", "key-tus"}
  /\ IF outcome = "fail"
     THEN /\ Respond(s, reqs[s], 201)
          /\ UNCHANGED nextId
     ELSE /\ nextId <= MaxVideos
          /\ nextId' = nextId + 1
          /\ Continue(s, [reqs[s] EXCEPT !.newId = VideoIds[nextId], !.pc = "insert"])
  /\ UNCHANGED <<now, users, videos, stars, issued, stream, history>>

\* the TUS creation POST to the provider and the extraction of the video id
OpenTusChannel(s, outcome) ==
  /\ reqs[s].op = "upload" /\ reqs[s].pc = "open"
  /\ reqs[s].via \in {"session", "key-tus"}
  /\ IF outcome = "fail"
     THEN /\ Respond(s, reqs[s], 500)
          /\ UNCHANGED nextId
     ELSE /\ nextId <= MaxVideos
          /\ nextId' = nextId + 1
          /\ LET videoId == ExtractVideoId(MediaIdHeader(outcome, VideoIds[nextId]),
                                           Location(outcome, VideoIds[nextId]))
             IN  IF videoId # NoId
                 THEN Continue(s, [reqs[s] EXCEPT !.newId = videoId, !.pc = "insert"])
                 ELSE Respond(s, reqs[s], 201)
  /\ UNCHANGED <<now, users, videos, stars, issued, stream, history>>

\* the single-shot POST to the provider
OpenDirectUpload(s, outcome) ==
  /\ reqs[s].op = "upload" /\ reqs[s].pc = "open"
  /\ reqs[s].via = "key-plain"
  /\ IF outcome = "fail"
     THEN /\ Respond(s, reqs[s], 500)
          /\ UNCHANGED nextId
     ELSE /\ nextId <= MaxVideos
          /\ nextId' = nextId + 1
          /\ IF VideoIds[nextId] # NoId
             THEN Continue(s, [reqs[s] EXCEPT !.newId = VideoIds[nextId],
                                              !.pc = "insert"])
             ELSE Respond(s, reqs[s], 500)
  /\ UNCHANGED <<now, users, videos, stars, issued, stream, history>>

\* INSERT INTO videos ...: the statement throws (a 500) on a taken id or an
\* unknown user_id; then the 201 with the Location, or the 200 of the plain path
\* (history, which only observes, is set by the specification)
InsertVideo(s) ==
  /\ reqs[s].op = "upload" /\ reqs[s].pc = "insert"
  /\ IF VideoInsertFails(NewVideoRow(reqs[s].newId, reqs[s].sub, reqs[s].courseId,
                                      reqs[s].assignmentId, now))
     THEN /\ Respond(s, reqs[s], 500)
          /\ UNCHANGED videos
     ELSE /\ videos' = videos \cup
                 {NewVideoRow(reqs[s].newId, reqs[s].sub, reqs[s].courseId,
                              reqs[s].assignmentId, now)}
          /\ Respond(s, reqs[s], IF reqs[s].via = "key-plain" THEN 200 ELSE 201)
  /\ UNCHANGED <<now, users, stars, issued, nextId, stream>>

----------------------------------------------------------------------------
(* api.ts: the session routes delete-video, star, hide-video, update-video *)

\* the ownership test left out: nobody owns anything
OwnedByNobody(videoId, sub) == FALSE

\* the ownership test left out: everybody owns everything
OwnedByAnybody(videoId, sub) == TRUE

\* row.user_id === user.sub, for the row SELECT user_id FROM videos WHERE id = ?
OwnedBy(videoId, sub) == \E v \in RowsById(videoId) : v.user_id = sub

\* POST /api/delete-video up to the ownership check
PostDelete(s, cookie, videoId) ==
  /\ Accepts(s)
  /\ IF ~softAuth(cookie, now)
     THEN Respond(s, Request("delete", cookie, "", ""), 302)
     ELSE LET r == [Request("delete", cookie, cookie.sub, cookie.email)
                      EXCEPT !.videoId = videoId]
          IN  IF videoId = NoId THEN Respond(s, r, 400)
              ELSE IF RowsById(videoId) = {} THEN Respond(s, r, 404)
              ELSE IF ~OwnedBy(videoId, cookie.sub) THEN Respond(s, r, 403)
              ELSE Continue(s, [r EXCEPT !.pc = "remove"])
  /\ UNCHANGED <<now, users, videos, stars, issued, nextId, stream, history>>

\* the remote delete awaited without its catch: its failure ends the request
\* in a 500 before the DELETE
RemoveVideoBlocking(s) ==
  /\ reqs[s].op = "delete" /\ reqs[s].pc = "remove"
  /\ \E remote \in {"ok", "failed"} :
       IF remote = "ok"
       THEN /\ videos' = VideosWithout(reqs[s].videoId)
            /\ stars' = StarsWithout(reqs[s].videoId)
            /\ stream' = StreamAfterDelete(reqs[s].videoId, remote)
            /\ Respond(s, reqs[s], 200)
       ELSE /\ Respond(s, reqs[s], 500)
            /\ UNCHANGED <<videos, stars, stream>>
  /\ UNCHANGED <<now, users, issued, nextId, history>>

\* the best-effort remote delete, whose failure is swallowed, then
\* DELETE FROM videos WHERE id = ? and { ok: true }
RemoveVideo(s) ==
  /\ reqs[s].op = "delete" /\ reqs[s].pc = "remove"
  /\ videos' = VideosWithout(reqs[s].videoId)
  /\ stars' = StarsWithout(reqs[s].videoId)
  /\ \E remote \in {"ok", "failed"} :
       stream' = StreamAfterDelete(reqs[s].videoId, remote)
  /\ Respond(s, reqs[s], 200)
  /\ UNCHANGED <<now, users, issued, nextId, history>>

\* the DELETE of the star left out
StarsWithoutStarKept(star) == stars

\* DELETE FROM stars WHERE user_id = ? AND video_id = ?
StarsWithoutStar(star) == stars \ {star}

\* the constraints of the stars table an INSERT can violate: PRIMARY KEY
\* (user_id, video_id), user_id REFERENCES users(id), video_id REFERENCES
\* videos(id)
StarInsertFails(star) ==
  \/ star \in stars
  \/ star.user_id \notin users
  \/ RowsById(star.video_id) = {}

\* POST /api/star up to the self-star check
\* (history, which only observes, is set by the specification)
PostStar(s, cookie, videoId) ==
  /\ Accepts(s)
  /\ IF ~softAuth(cookie, now)
     THEN Respond(s, Request("star", cookie, "", ""), 302)
     ELSE LET r == [Request("star", cookie, cookie.sub, cookie.email)
                      EXCEPT !.videoId = videoId]
          IN  IF videoId = NoId THEN Respond(s, r, 400)
              ELSE IF RowsById(videoId) = {} THEN Respond(s, r, 404)
              ELSE IF OwnedBy(videoId, cookie.sub) THEN Respond(s, r, 403)
              ELSE Continue(s, [r EXCEPT !.pc = "check"])
  /\ UNCHANGED <<now, users, videos, stars, issued, nextId, stream>>

\* existing = SELECT 1 FROM stars WHERE user_id = ? AND video_id = ?
CheckStar(s) ==
  /\ reqs[s].op = "star" /\ reqs[s].pc = "check"
  /\ Continue(s, [reqs[s] EXCEPT
                    !.existing = IF Star(reqs[s].sub, reqs[s].videoId) \in stars
                                 THEN "1" ELSE NoId,
                    !.pc = "write"])
  /\ UNCHANGED <<now, users, videos, stars, issued, nextId, stream, history>>

\* if (existing) DELETE FROM stars ... else INSERT INTO stars ...: the INSERT is
\* not in a try block, so a statement that throws ends the request with the
\* framework's 500
WriteStar(s) ==
  /\ reqs[s].op = "star" /\ reqs[s].pc = "write"
  /\ IF reqs[s].existing # NoId
     THEN /\ stars' = StarsWithoutStar(Star(reqs[s].sub, reqs[s].videoId))
          /\ Continue(s, [reqs[s] EXCEPT !.pc = "count"])
     ELSE IF StarInsertFails(Star(reqs[s].sub, reqs[s].videoId))
     THEN /\ Respond(s, reqs[s], 500)
          /\ UNCHANGED stars
     ELSE /\ stars' = stars \cup {Star(reqs[s].sub, reqs[s].videoId)}
          /\ Continue(s, [reqs[s] EXCEPT !.pc = "count"])
  /\ UNCHANGED <<now, users, videos, issued, nextId, stream>>

\* SELECT COUNT(*) ... and { starred: !existing, starCount: count.c }
CountStar(s) ==
  /\ reqs[s].op = "star" /\ reqs[s].pc = "count"
  /\ Respond(s, [reqs[s] EXCEPT !.starred = (reqs[s].existing = NoId),
                                !.starCount = StarCount(reqs[s].videoId)], 200)
  /\ UNCHANGED <<now, users, videos, stars, issued, nextId, stream>>

\* POST /api/hide-video up to the read of the row
PostHide(s, cookie, videoId) ==
  /\ Accepts(s)
  /\ IF ~softAuth(cookie, now)
     THEN Respond(s, Request("hide", cookie, "", ""), 302)
     ELSE LET r == [Request("hide", cookie, cookie.sub, cookie.email)
                      EXCEPT !.videoId = videoId]
          IN  IF ~isModerator(cookie.email) THEN Respond(s, r, 403)
              ELSE IF videoId = NoId THEN Respond(s, r, 400)
              ELSE IF RowsById(videoId) = {} THEN Respond(s, r, 404)
              ELSE \E v \in RowsById(videoId) :
                     Continue(s, [r EXCEPT !.row = v.hidden, !.pc = "flip"])
  /\ UNCHANGED <<now, users, videos, stars, issued, nextId, stream, history>>

\* UPDATE videos SET hidden = 1 - hidden WHERE id = ? and { hidden: !row.hidden }
FlipHidden(s) ==
  /\ reqs[s].op = "hide" /\ reqs[s].pc = "flip"
  /\ videos' = { IF v.id = reqs[s].videoId
                 THEN [v EXCEPT !.hidden = 1 - v.hidden] ELSE v : v \in videos }
  /\ Respond(s, [reqs[s] EXCEPT !.hidden = (reqs[s].row = 0)], 200)
  /\ UNCHANGED <<now, users, stars, issued, nextId, stream, history>>

\* (x ?? "").trim()
Trimmed(x) == IF x = <<>> THEN "" ELSE trim(x[1])

\* the bodies update-video is sent
Patches ==
  { [title |-> <<"t1">>, description |-> <<>>, url |-> <<>>],
    [title |-> <<" t2 ">>, description |-> <<"d2">>, url |-> <<"u2">>] }

\* POST /api/update-video up to the ownership check
PostUpdate(s, cookie, videoId, patch) ==
  /\ Accepts(s)
  /\ IF ~softAuth(cookie, now)
     THEN Respond(s, Request("update", cookie, "", ""), 302)
     ELSE LET r == [Request("update", cookie, cookie.sub, cookie.email)
                      EXCEPT !.videoId = videoId, !.patch = patch]
          IN  IF videoId = NoId THEN Respond(s, r, 400)
              ELSE IF RowsById(videoId) = {} THEN Respond(s, r, 404)
              ELSE IF ~OwnedBy(videoId, cookie.sub) THEN Respond(s, r, 403)
              ELSE Continue(s, [r EXCEPT !.pc = "update"])
  /\ UNCHANGED <<now, users, videos, stars, issued, nextId, stream, history>>

\* UPDATE videos SET title = ?, description = ?, url = ? WHERE id = ? and
\* { ok: true }
ApplyUpdate(s) ==
  /\ reqs[s].op = "update" /\ reqs[s].pc = "update"
  /\ videos' = { IF v.id = reqs[s].videoId
                 THEN [v EXCEPT !.title = Trimmed(reqs[s].patch.title),
                                !.description = Trimmed(reqs[s].patch.description),
                                !.url = Trimmed(reqs[s].patch.url)]
                 ELSE v : v \in videos }
  /\ Respond(s, reqs[s], 200)
  /\ UNCHANGED <<now, users, stars, issued, nextId, stream, history>>

----------------------------------------------------------------------------
(* pages.ts: the gallery page and the single-video page                     *)

\* the filter left out: every row is returned
VisibleToAll(v, moderator) == TRUE

\* (v.hidden = 0 OR ?) bound to moderator ? 1 : 0
Visible(v, moderator) == v.hidden = 0 \/ moderator

\* the rows of the gallery page: videos v JOIN users u WHERE v.course_id = ?
\* AND v.assignment_id = ? AND (v.hidden = 0 OR ?)
GalleryRows(courseId, assignmentId, moderator) ==
  { v \in videos : /\ v.user_id \in users
                   /\ v.course_id = courseId
                   /\ v.assignment_id = assignmentId
                   /\ Visible(v, moderator) }

\* the row of the single-video page: videos v JOIN users u WHERE v.id = ? AND
\* (v.hidden = 0 OR ?)
VideoRows(videoId, moderator) ==
  { v \in RowsById(videoId) : v.user_id \in users /\ Visible(v, moderator) }

maxDurationChecksPerLoad == 10

\* the slice left out: every row without a duration is queried
PendingChoicesUncapped(rows) ==
  { { v.id : v \in { w \in rows : w.duration = Null } } }

\* videos.filter((v) => v.duration === null).slice(0, maxDurationChecksPerLoad)
\* with the rows in ORDER BY v.created_at DESC: the ids it can hold (rows of
\* one created_at come in any order)
PendingChoices(rows) ==
  LET nulls == { v \in rows : v.duration = Null }
      k == IF Cardinality(nulls) < maxDurationChecksPerLoad
           THEN Cardinality(nulls) ELSE maxDurationChecksPerLoad
  IN  { { v.id : v \in P } :
          P \in { Q \in SUBSET nulls :
                    /\ Cardinality(Q) = k
                    /\ \A a \in Q, b \in nulls \ Q : a.created_at >= b.created_at } }

\* the duration the provider reports for a video that is ready
ReadyDuration == <<12>>

\* what streamAPI(env, `/${id}`) answers: success false, or the video's state
StatusAnswers(id) ==
  {"unsuccessful"} \cup (IF id \in stream THEN {"ready"} ELSE {"processing"})

\* UPDATE videos SET duration = ? WHERE id = ?
VideosWithDuration(id, duration) ==
  { IF v.id = id THEN [v EXCEPT !.duration = duration] ELSE v : v \in videos }

\* GET /:courseId/:assignmentId up to the backfill
ViewGallery(s, cookie, courseId, assignmentId) ==
  /\ Accepts(s)
  /\ IF ~softAuth(cookie, now)
     THEN Respond(s, Request("gallery", cookie, "", ""), 302)
     ELSE LET r == [Request("gallery", cookie, cookie.sub, cookie.email)
                      EXCEPT !.courseId = courseId, !.assignmentId = assignmentId]
              rows == GalleryRows(courseId, assignmentId, isModerator(cookie.email))
          IN  \E pending \in PendingChoices(rows) :
                IF pending = {}
                THEN Respond(s, [r EXCEPT !.results = { v.id : v \in rows }], 200)
                ELSE Continue(s, [r EXCEPT !.results = { v.id : v \in rows },
                                           !.pending = pending, !.pc = "backfill"])
  /\ UNCHANGED <<now, users, videos, stars, issued, nextId, stream, history>>

\* GET /v/:videoId up to the backfill
ViewVideo(s, cookie, videoId) ==
  /\ Accepts(s)
  /\ IF ~softAuth(cookie, now)
     THEN Respond(s, Request("video", cookie, "", ""), 302)
     ELSE LET r == [Request("video", cookie, cookie.sub, cookie.email)
                      EXCEPT !.videoId = videoId]
              rows == VideoRows(videoId, isModerator(cookie.email))
          IN  IF rows = {} THEN Respond(s, r, 404)
              ELSE \E pending \in PendingChoices(rows) :
                     IF pending = {}
                     THEN Respond(s, [r EXCEPT !.results = {videoId}], 200)
                     ELSE Continue(s, [r EXCEPT !.results = {videoId},
                                                !.pending = pending,
                                                !.pc = "backfill"])
  /\ UNCHANGED <<now, users, videos, stars, issued, nextId, stream, history>>

\* refreshVideoStatus, one id of videoIds: the status query and, when the video
\* is ready with a duration, the UPDATE; the page is sent after the last one
RefreshVideoStatus(s, id, answer) ==
  /\ reqs[s].op \in {"gallery", "video"} /\ reqs[s].pc = "backfill"
  /\ id \in reqs[s].pending
  /\ answer \in StatusAnswers(id)
  /\ videos' = IF answer = "ready" THEN VideosWithDuration(id, ReadyDuration)
               ELSE videos
  /\ IF reqs[s].pending = {id}
     THEN Respond(s, reqs[s], 200)
     ELSE Continue(s, [reqs[s] EXCEPT !.pending = reqs[s].pending \ {id}])
  /\ UNCHANGED <<now, users, stars, issued, nextId, stream, history>>

----------------------------------------------------------------------------
(* The provider                                                            *)

\* the provider finishes processing an uploaded video
Encode(id) ==
  /\ RowsById(id) # {}
  /\ id \notin stream
  /\ stream' = stream \cup {id}
  /\ UNCHANGED <<now, users, videos, stars, issued, nextId, reqs, history>>

----------------------------------------------------------------------------
(* What a client can present                                               *)

\* tokens made without JWT_SECRET: a malformed one and one with a wrong signature
Forged ==
  { Token(FALSE, FALSE, "upload-key", "s1", "s1@ucsc.edu", "c1", "a1", Epoch + 3 * TTL),
    Token(TRUE, FALSE, "upload-key", "s1", "s1@ucsc.edu", "c1", "a1", Epoch + 3 * TTL),
    Token(TRUE, FALSE, "", "s1", "s1@ucsc.edu", "", "", Epoch + 3 * TTL) }

Presentable == issued \cup Forged \cup {NoToken}

Init ==
  /\ now = Epoch
  /\ users = {}
  /\ videos = {}
  /\ stars = {}
  /\ issued = {}
  /\ nextId = 1
  /\ stream = {}
  /\ reqs = [s \in Slots |-> Idle]
  /\ history = {}

Students == { i \in IdentityInfos : i.sub \in {"s1", "s2"} }

\* history' when slot s inserts its row
Recorded(s) ==
  IF reqs[s].op = "upload" /\ reqs[s].pc = "insert" /\ Succeeded(reqs'[s])
  THEN history \cup {[sub |-> reqs[s].sub, courseId |-> reqs[s].courseId,
                      assignmentId |-> reqs[s].assignmentId,
                      via |-> reqs[s].via, tok |-> reqs[s].tok]}
  ELSE history

\* the upload protocol with requests served one at a time: two students, one
\* gallery, the three entry surfaces
NextSequential ==
  \/ \E info \in Students : Callback(1, info)
  \/ \E cookie \in issued : CreateUploadKey(1, cookie, "c1", "a1")
  \/ \E cookie \in issued : PostTusUpload(1, cookie, "c1", "a1")
  \/ \E key \in issued, tus \in BOOLEAN : PostK(1, key, tus, 1)
  \/ ReplaceExisting(1)
  \/ \E outcome \in TusOutcomes : OpenTusChannel(1, outcome)
  \/ \E outcome \in PlainOutcomes : OpenDirectUpload(1, outcome)
  \/ InsertVideo(1) /\ history' = Recorded(1)

SpecSequential == Init /\ [][NextSequential]_vars

\* the upload protocol with requests in flight together: two students, one
\* gallery, the three entry surfaces
NextUpload ==
  \E s \in Slots :
    \/ \E info \in Students : Callback(s, info)
    \/ \E cookie \in issued : CreateUploadKey(s, cookie, "c1", "a1")
    \/ \E cookie \in issued : PostTusUpload(s, cookie, "c1", "a1")
    \/ \E key \in issued, tus \in BOOLEAN : PostK(s, key, tus, 1)
    \/ ReplaceExisting(s)
    \/ \E outcome \in TusOutcomes : OpenTusChannel(s, outcome)
    \/ \E outcome \in PlainOutcomes : OpenDirectUpload(s, outcome)
    \/ InsertVideo(s) /\ UNCHANGED history

SpecUpload == Init /\ [][NextUpload]_vars

\* the ids the provider has handed out
Handed == { VideoIds[i] : i \in 1..(nextId - 1) }

\* tokens signed with JWT_SECRET in every shape a verifier can be handed at
\* time t: an upload key with exp around t, unexpired upload keys that lack a
\* claim, and unexpired tokens of another purpose or none
Signed(t) ==
  { sign("upload-key", "s1", "s1@ucsc.edu", "c1", "a1", exp) :
      exp \in {t - 1, t, t + 1} }
  \cup { sign("upload-key", c[1], "s1@ucsc.edu", c[2], c[3], t + 1) :
           c \in { <<"", "c1", "a1">>, <<"s1", "", "a1">>, <<"s1", "c1", "">> } }
  \cup { sign(purpose, "s1", "s1@ucsc.edu", c[1], c[2], t + 1) :
           purpose \in {"", "session"}, c \in { <<"c1", "a1">>, <<"", "">> } }

\* the upload keys: one request at a time, the clock, the route that issues
\* the keys and the route that verifies them, handed every kind of token; the
\* log-ins come before the clock moves
NextToken ==
  \/ Tick
  \/ \E info \in { i \in IdentityInfos : i.sub \in {"s1", "x2"} } :
       now = Epoch /\ Callback(1, info)
  \/ \E cookie \in issued, courseId \in CourseIds :
       CreateUploadKey(1, cookie, courseId, "a1")
  \/ \E key \in Presentable \cup Signed(now), tus \in BOOLEAN :
       \E byteLength \in IF tus THEN {0} ELSE {0, 1} :
         PostK(1, key, tus, byteLength)
  \/ ReplaceExisting(1)
  \/ OpenTusChannel(1, "header")
  \/ OpenDirectUpload(1, "uid")
  \/ InsertVideo(1) /\ UNCHANGED history

SpecToken == Init /\ [][NextToken]_vars

\* the session routes: one request at a time, a student and a moderator, every
\* route behind requireAuth handed every token a client can hold
NextSession ==
  \/ \E info \in { i \in IdentityInfos : i.sub \in {"s1", "m1"} } : Callback(1, info)
  \/ \E cookie \in Presentable : CreateUploadKey(1, cookie, "c1", "a1")
  \/ \E cookie \in Presentable : PostTusUpload(1, cookie, "c1", "a1")
  \/ ReplaceExisting(1)
  \/ OpenTusChannel(1, "header")
  \/ InsertVideo(1) /\ UNCHANGED history
  \/ \E cookie \in Presentable, videoId \in Handed :
       PostDelete(1, cookie, videoId)
  \/ RemoveVideo(1)
  \/ \E cookie \in Presentable, videoId \in Handed :
       PostStar(1, cookie, videoId) /\ UNCHANGED history
  \/ CheckStar(1)
  \/ WriteStar(1) /\ UNCHANGED history
  \/ CountStar(1) /\ UNCHANGED history
  \/ \E cookie \in Presentable, videoId \in Handed :
       PostHide(1, cookie, videoId)
  \/ FlipHidden(1)
  \/ \E cookie \in Presentable, videoId \in Handed, patch \in Patches :
       PostUpdate(1, cookie, videoId, patch)
  \/ ApplyUpdate(1)

SpecSession == Init /\ [][NextSession]_vars

\* history' when the star request of slot s goes on to its reads: the state of
\* the pair and the count of the video as the request found them
StarBegun(s) ==
  IF reqs'[s].pc = "check"
  THEN { h \in history : h.phase = "ended" } \cup
       {[phase |-> "begun", sub |-> reqs'[s].sub, videoId |-> reqs'[s].videoId,
         starred |-> Star(reqs'[s].sub, reqs'[s].videoId) \in stars,
         count |-> StarCount(reqs'[s].videoId), said |-> FALSE,
         paired |-> FALSE]}
  ELSE history

\* history' when the star request of slot s is answered: what it had found,
\* what its response says, and whether the request answered before it was of
\* the same identity on the same video
StarEnded(s) ==
  { [h EXCEPT !.phase = "ended", !.said = reqs'[s].starred,
              !.paired = \E g \in history : /\ g.phase = "ended"
                                            /\ g.sub = h.sub
                                            /\ g.videoId = h.videoId] :
      h \in { g \in history : g.phase = "begun" } }

\* the stars with requests served one at a time: two students, their clips
\* and the replacements of them, the star toggle
NextStarSequential ==
  \/ \E info \in Students : Callback(1, info)
  \/ \E cookie \in issued : PostTusUpload(1, cookie, "c1", "a1")
  \/ ReplaceExisting(1)
  \/ OpenTusChannel(1, "header")
  \/ InsertVideo(1) /\ UNCHANGED history
  \/ \E cookie \in issued, videoId \in Handed :
       PostStar(1, cookie, videoId) /\ history' = StarBegun(1)
  \/ CheckStar(1)
  \/ WriteStar(1) /\ UNCHANGED history
  \/ CountStar(1) /\ history' = StarEnded(1)

SpecStarSequential == Init /\ [][NextStarSequential]_vars

\* the stars with requests in flight together: two students, their clips and
\* the replacements of them, the star toggle
NextStar ==
  \E s \in Slots :
    \/ \E info \in Students : Callback(s, info)
    \/ \E cookie \in issued : PostTusUpload(s, cookie, "c1", "a1")
    \/ ReplaceExisting(s)
    \/ OpenTusChannel(s, "header")
    \/ InsertVideo(s) /\ UNCHANGED history
    \/ \E cookie \in issued, videoId \in Handed :
         PostStar(s, cookie, videoId) /\ UNCHANGED history
    \/ CheckStar(s)
    \/ WriteStar(s) /\ UNCHANGED history
    \/ CountStar(s) /\ UNCHANGED history

SpecStar == Init /\ [][NextStar]_vars

\* the pages, with requests served one at a time: a student and a moderator,
\* their clips, hide-video, the two pages that list clips with their backfill,
\* the provider finishing its processing
NextView ==
  \/ \E id \in Handed : Encode(id)
  \/ \E info \in { i \in IdentityInfos : i.sub \in {"s1", "m1"} } : Callback(1, info)
  \/ \E cookie \in issued : PostTusUpload(1, cookie, "c1", "a1")
  \/ ReplaceExisting(1)
  \/ OpenTusChannel(1, "header")
  \/ InsertVideo(1) /\ UNCHANGED history
  \/ \E cookie \in issued, videoId \in Handed : PostHide(1, cookie, videoId)
  \/ FlipHidden(1)
  \/ \E cookie \in issued : ViewGallery(1, cookie, "c1", "a1")
  \/ \E cookie \in issued, videoId \in Handed : ViewVideo(1, cookie, videoId)
  \/ \E id \in Handed, answer \in {"unsuccessful", "processing", "ready"} :
       RefreshVideoStatus(1, id, answer)

SpecView == Init /\ [][NextView]_vars

\* the routes that name a video, with requests served one at a time: a student
\* and a moderator, their clips, hide-video, star, update-video, delete-video
\* and the single-video page
NextModeration ==
  \/ \E info \in { i \in IdentityInfos : i.sub \in {"s1", "m1"} } : Callback(1, info)
  \/ \E cookie \in issued : PostTusUpload(1, cookie, "c1", "a1")
  \/ ReplaceExisting(1)
  \/ OpenTusChannel(1, "header")
  \/ InsertVideo(1) /\ UNCHANGED history
  \/ \E cookie \in issued, videoId \in Handed : PostHide(1, cookie, videoId)
  \/ FlipHidden(1)
  \/ \E cookie \in issued, videoId \in Handed :
       PostStar(1, cookie, videoId) /\ UNCHANGED history
  \/ CheckStar(1)
  \/ WriteStar(1) /\ UNCHANGED history
  \/ CountStar(1) /\ UNCHANGED history
  \/ \E cookie \in issued, videoId \in Handed, patch \in Patches :
       PostUpdate(1, cookie, videoId, patch)
  \/ ApplyUpdate(1)
  \/ \E cookie \in issued, videoId \in Handed : PostDelete(1, cookie, videoId)
  \/ RemoveVideo(1)
  \/ \E cookie \in issued, videoId \in Handed : ViewVideo(1, cookie, videoId)
  \/ \E id \in Handed, answer \in {"unsuccessful", "processing"} :
       RefreshVideoStatus(1, id, answer)

SpecModeration == Init /\ [][NextModeration]_vars

\* one request at a time, with the inputs the handlers validate: a session
\* upload or a key request with a coordinate missing or not, and every
\* single-shot upload with an empty body
NextValidation ==
  \/ \E info \in Students : Callback(1, info)
  \/ \E cookie \in issued, courseId \in CourseIds, assignmentId \in {"", "a1"} :
       PostTusUpload(1, cookie, courseId, assignmentId)
  \/ \E cookie \in issued, courseId \in CourseIds, assignmentId \in {"", "a1"} :
       CreateUploadKey(1, cookie, courseId, assignmentId)
  \/ \E key \in issued, tus \in BOOLEAN : PostK(1, key, tus, 0)
  \/ ReplaceExisting(1)
  \/ \E outcome \in {"fail", "header"} : OpenTusChannel(1, outcome)
  \/ InsertVideo(1) /\ UNCHANGED history

SpecValidation == Init /\ [][NextValidation]_vars

\* s1 uploads, replaces and deletes its clip while s2 stars it, the requests
\* interleaved
NextCascade ==
  \E s \in Slots :
    \/ \E info \in Students : Callback(s, info)
    \/ \E cookie \in issued :
         cookie.sub = "s1" /\ PostTusUpload(s, cookie, "c1", "a1")
    \/ ReplaceExisting(s)
    \/ OpenTusChannel(s, "header")
    \/ InsertVideo(s) /\ UNCHANGED history
    \/ \E cookie \in issued, videoId \in Handed :
         cookie.sub = "s1" /\ PostDelete(s, cookie, videoId)
    \/ RemoveVideo(s)
    \/ \E cookie \in issued, videoId \in Handed :
         cookie.sub = "s2" /\ PostStar(s, cookie, videoId) /\ UNCHANGED history
    \/ CheckStar(s)
    \/ WriteStar(s) /\ UNCHANGED history
    \/ CountStar(s) /\ UNCHANGED history

SpecCascade == Init /\ [][NextCascade]_vars

\* every identity of the provider logs in, one request at a time, and the
\* sessions are used for keys and uploads
NextLogin ==
  \/ \E info \in IdentityInfos : Callback(1, info)
  \/ \E cookie \in issued, courseId \in CourseIds :
       CreateUploadKey(1, cookie, courseId, "a1")
  \/ \E cookie \in issued : PostTusUpload(1, cookie, "c1", "a1")
  \/ ReplaceExisting(1)
  \/ OpenTusChannel(1, "header")
  \/ InsertVideo(1) /\ UNCHANGED history

SpecLogin == Init /\ [][NextLogin]_vars

\* the uploads of s1 into one gallery: requests that arrive before the
\* provider has created a video may overlap, a later one arrives when no
\* request is under way
NextReconcile ==
  \E s \in Slots :
    \/ \E info \in { i \in IdentityInfos : i.sub = "s1" } : Callback(s, info)
    \/ \E cookie \in issued :
         /\ nextId = 1 \/ \A t \in Slots : Free(t)
         /\ PostTusUpload(s, cookie, "c1", "a1")
    \/ ReplaceExisting(s)
    \/ OpenTusChannel(s, "header")
    \/ InsertVideo(s) /\ UNCHANGED history

SpecReconcile == Init /\ [][NextReconcile]_vars

\* one request at a time: uploads on the three paths and delete-video, of
\* clips the provider may have finished processing
NextCleanup ==
  \/ \E id \in Handed : Encode(id)
  \/ \E info \in { i \in IdentityInfos : i.sub = "s1" } : Callback(1, info)
  \/ \E cookie \in issued : CreateUploadKey(1, cookie, "c1", "a1")
  \/ \E cookie \in issued : PostTusUpload(1, cookie, "c1", "a1")
  \/ \E key \in issued, tus \in BOOLEAN : PostK(1, key, tus, 1)
  \/ ReplaceExisting(1)
  \/ OpenTusChannel(1, "header")
  \/ OpenDirectUpload(1, "uid")
  \/ InsertVideo(1) /\ UNCHANGED history
  \/ \E cookie \in issued, videoId \in Handed : PostDelete(1, cookie, videoId)
  \/ RemoveVideo(1)

SpecCleanup == Init /\ [][NextCleanup]_vars

\* one request at a time: s1 uploads on the three paths, the token paths
\* with a key it was given within the last day, with a provider that may
\* fail, and s2 stars the clips
NextSurfaces ==
  \/ \E info \in Students : Callback(1, info)
  \/ \E cookie \in issued :
       cookie.sub = "s1" /\ PostTusUpload(1, cookie, "c1", "a1")
  \/ \E key \in Signed(now), tus \in BOOLEAN :
       /\ key.sub \in users
       /\ verifyUploadKey(key, now)
       /\ PostK(1, key, tus, 1)
  \/ ReplaceExisting(1)
  \/ \E outcome \in {"fail", "header"} : OpenTusChannel(1, outcome)
  \/ \E outcome \in PlainOutcomes : OpenDirectUpload(1, outcome)
  \/ InsertVideo(1) /\ history' = Recorded(1)
  \/ \E cookie \in issued, videoId \in Handed :
       cookie.sub = "s2" /\ PostStar(1, cookie, videoId) /\ UNCHANGED history
  \/ CheckStar(1)
  \/ WriteStar(1) /\ UNCHANGED history
  \/ CountStar(1) /\ UNCHANGED history

SpecSurfaces == Init /\ [][NextSurfaces]_vars

\* a session cookie and an upload key of s1 that expired at Epoch
Expired ==
  { sign("", "s1", "s1@ucsc.edu", "", "", Epoch),
    sign("upload-key", "s1", "s1@ucsc.edu", "c1", "a1", Epoch) }

\* one request at a time, with any cookie and any key a client can present,
\* good, forged, expired or missing: the routes that write video and star rows
NextAuth ==
  \/ \E info \in { i \in IdentityInfos : i.sub \in {"s1", "m1"} } : Callback(1, info)
  \/ \E cookie \in Presentable \cup Expired : PostTusUpload(1, cookie, "c1", "a1")
  \/ \E key \in (Presentable \cup Expired \cup Signed(now)) \ {NoToken} :
       PostK(1, key, FALSE, 1)
  \/ ReplaceExisting(1)
  \/ OpenTusChannel(1, "header")
  \/ OpenDirectUpload(1, "uid")
  \/ InsertVideo(1) /\ UNCHANGED history
  \/ \E cookie \in Presentable \cup Expired, videoId \in Handed :
       PostDelete(1, cookie, videoId)
  \/ RemoveVideo(1)
  \/ \E cookie \in Presentable \cup Expired, videoId \in Handed :
       PostStar(1, cookie, videoId) /\ UNCHANGED history
  \/ CheckStar(1)
  \/ WriteStar(1) /\ UNCHANGED history
  \/ CountStar(1) /\ UNCHANGED history
  \/ \E cookie \in Presentable \cup Expired, videoId \in Handed :
       PostHide(1, cookie, videoId)
  \/ FlipHidden(1)
  \/ \E cookie \in Presentable \cup Expired, videoId \in Handed :
       PostUpdate(1, cookie, videoId, [title |-> <<"t1">>, description |-> <<>>, url |-> <<>>])
  \/ ApplyUpdate(1)

SpecAuth == Init /\ [][NextAuth]_vars

\* one request at a time: two students, two galleries of one course, uploads
\* by session and by key, and stars
NextScope ==
  \/ \E info \in Students : Callback(1, info)
  \/ \E cookie \in issued, assignmentId \in {"a1", "a2"} :
       CreateUploadKey(1, cookie, "c1", assignmentId)
  \/ \E cookie \in issued, assignmentId \in {"a1", "a2"} :
       PostTusUpload(1, cookie, "c1", assignmentId)
  \/ \E key \in issued : PostK(1, key, FALSE, 1)
  \/ ReplaceExisting(1)
  \/ OpenTusChannel(1, "header")
  \/ OpenDirectUpload(1, "uid")
  \/ InsertVideo(1) /\ UNCHANGED history
  \/ \E cookie \in issued, videoId \in Handed :
       PostStar(1, cookie, videoId) /\ UNCHANGED history
  \/ CheckStar(1)
  \/ WriteStar(1) /\ UNCHANGED history
  \/ CountStar(1) /\ UNCHANGED history

SpecScope == Init /\ [][NextScope]_vars

\* s1 uploads and uploads again while the moderator hides and shows its
\* clips, the requests interleaved
NextRemoderate ==
  \E s \in Slots :
    \/ \E info \in { i \in IdentityInfos : i.sub \in {"s1", "m1"} } : Callback(s, info)
    \/ \E cookie \in issued :
         cookie.sub = "s1" /\ PostTusUpload(s, cookie, "c1", "a1")
    \/ ReplaceExisting(s)
    \/ OpenTusChannel(s, "header")
    \/ InsertVideo(s) /\ UNCHANGED history
    \/ \E cookie \in issued, videoId \in Handed : PostHide(s, cookie, videoId)
    \/ FlipHidden(s)

SpecRemoderate == Init /\ [][NextRemoderate]_vars

\* the clips of a gallery with a backlog: ten students uploaded and never
\* sent their bytes, so the provider never has these ready
StuckIds == {"b01", "b02", "b03", "b04", "b05", "b06", "b07", "b08", "b09", "b10"}

\* the ids of the clips of that gallery
BacklogIds == StuckIds \cup {"b00", "b11"}

\* a gallery after twelve uploads: the clip b00 of s1, uploaded first, is
\* ready at the provider; the clip b11 is the newest, and the provider may
\* finish it; no page has been loaded yet, so every duration is NULL
InitBacklog ==
  /\ now = Epoch
  /\ users = {"s1"} \cup { "u" \o id : id \in StuckIds \cup {"b11"} }
  /\ videos = {NewVideoRow("b00", "s1", "c1", "a1", Epoch - 3)}
                \cup { NewVideoRow(id, "u" \o id, "c1", "a1", Epoch - 2) : id \in StuckIds }
                \cup {NewVideoRow("b11", "ub11", "c1", "a1", Epoch - 1)}
  /\ stars = {}
  /\ issued = {sign("", "s1", "s1@ucsc.edu", "", "", Epoch + TTL)}
  /\ nextId = 1
  /\ stream = {"b00"}
  /\ reqs = [s \in Slots |-> Idle]
  /\ history = {}

\* s1 loads the gallery page again and again while the provider works
NextBacklog ==
  \/ Encode("b11")
  \/ \E cookie \in issued : ViewGallery(1, cookie, "c1", "a1")
  \/ \E id \in BacklogIds, answer \in {"processing", "ready"} :
       RefreshVideoStatus(1, id, answer)

\* every page load that is asked for is served, and its status queries return
SpecBacklog ==
  /\ InitBacklog
  /\ [][NextBacklog]_vars
  /\ WF_vars(\E cookie \in issued : ViewGallery(1, cookie, "c1", "a1"))
  /\ WF_vars(\E id \in BacklogIds, answer \in {"processing", "ready"} :
               RefreshVideoStatus(1, id, answer))
  /\ WF_vars(Encode("b11"))

----------------------------------------------------------------------------
(* Upload claims                                                           *)

Target(r) == RowsOf(r.sub, r.courseId, r.assignmentId)

DoubleUploadRace ==
  [][\A s \in Slots :
       ( /\ reqs[s].op = "upload" /\ reqs[s].pc = "insert"
         /\ reqs'[s].pc = "done"
         /\ Target(reqs[s]) # {} )
       => /\ Succeeded(reqs'[s])
          /\ Cardinality({ v \in videos' : /\ v.user_id = reqs[s].sub
                                           /\ v.course_id = reqs[s].courseId
                                           /\ v.assignment_id = reqs[s].assignmentId })
               >= 2]_vars

\* two initiations of one identity for one gallery, neither of which found a
\* row to replace, have both succeeded, and both rows are in the store
TwoRowsAfterRace ==
  \E s, t \in Slots :
    /\ s # t
    /\ Succeeded(reqs[s]) /\ Succeeded(reqs[t])
    /\ reqs[s].sub = reqs[t].sub
    /\ reqs[s].courseId = reqs[t].courseId
    /\ reqs[s].assignmentId = reqs[t].assignmentId
    /\ nextId = 3
    /\ { v.id : v \in Target(reqs[s]) } = {reqs[s].newId, reqs[t].newId}
    /\ reqs[s].newId # reqs[t].newId

----------------------------------------------------------------------------
(* Token claims                                                            *)

\* slot s takes a request for op in this step
Arrives(s, op) == Free(s) /\ reqs'[s] # reqs[s] /\ reqs'[s].op = op

\* slot s takes a POST /k/:key in this step
ArrivesWithKey(s) ==
  Arrives(s, "upload") /\ reqs'[s].via \in {"key-tus", "key-plain"}

\* C3: POST /k/:key answers every token whose purpose is not "upload-key" with
\* 401 in its first step, a signed and unexpired session token included: the
\* request never reaches the lookup, the delete, the provider or the insert.
UploadRejectsOtherPurposes ==
  [][\A s \in Slots :
       (ArrivesWithKey(s) /\ reqs'[s].tok.purpose # "upload-key")
       => /\ reqs'[s].pc = "done"
          /\ reqs'[s].status = 401
          /\ UNCHANGED <<videos, stars, nextId, stream>>]_vars

\* a session cookie the callback issued, signed and not expired, was presented
\* as an upload key while its owner had no clip, and was answered 401
SessionTokenAsKey ==
  /\ reqs[1].op = "upload" /\ reqs[1].pc = "done"
  /\ reqs[1].via \in {"key-tus", "key-plain"}
  /\ reqs[1].tok \in issued
  /\ reqs[1].tok.purpose = ""
  /\ reqs[1].tok.sub \in users
  /\ reqs[1].tok.exp > now
  /\ reqs[1].status = 401

\* C4: a request to create-upload-key, star, delete-video, update-video or
\* hide-video whose session cookie is an upload key is not authenticated: it is
\* redirected to the login in its first step and changes nothing.
SessionRejectsUploadKeys ==
  [][\A s \in Slots :
       ( /\ \E op \in {"createKey", "star", "delete", "update", "hide"} :
               Arrives(s, op)
         /\ reqs'[s].tok.purpose = "upload-key" )
       => /\ reqs'[s].pc = "done"
          /\ reqs'[s].status = 302
          /\ UNCHANGED <<users, videos, stars, issued, nextId, stream>>]_vars

\* C5: a correctly signed upload key with all its claims is rejected by
\* POST /k/:key at the time exp + 1 and is not rejected at the time exp - 1;
\* and a create-upload-key answered 200 has signed a key for the caller and the
\* gallery whose exp is the time of the request plus 86400.
ExpiryBoundary ==
  [][\A s \in Slots :
       /\ ( /\ ArrivesWithKey(s)
            /\ reqs'[s].tok.wf /\ reqs'[s].tok.sig
            /\ reqs'[s].tok.purpose = "upload-key"
            /\ reqs'[s].tok.sub # "" /\ reqs'[s].tok.courseId # ""
            /\ reqs'[s].tok.assignmentId # "" )
          => /\ (reqs'[s].tok.exp = now - 1
                   => reqs'[s].pc = "done" /\ reqs'[s].status = 401)
             /\ (reqs'[s].tok.exp = now + 1
                   => ~(reqs'[s].pc = "done" /\ reqs'[s].status = 401))
       /\ (Arrives(s, "createKey") /\ reqs'[s].status = 200)
          => \E k \in issued' :
               /\ k.wf /\ k.sig /\ k.purpose = "upload-key"
               /\ k.sub = reqs'[s].tok.sub
               /\ k.courseId = reqs'[s].courseId
               /\ k.assignmentId = reqs'[s].assignmentId
               /\ k.exp = now + 86400]_vars

\* an upload key issued by create-upload-key was presented one second after its
\* exp and was answered 401
KeyExpiredByOneSecond ==
  /\ reqs[1].op = "upload" /\ reqs[1].pc = "done"
  /\ reqs[1].via \in {"key-tus", "key-plain"}
  /\ reqs[1].tok \in issued
  /\ reqs[1].tok.purpose = "upload-key"
  /\ reqs[1].tok.exp = now - 1
  /\ reqs[1].status = 401

\* a token POST /k/:key must not accept at time t: malformed, signed with
\* another secret, expired, of another purpose, or without one of its claims
Invalid(token, t) ==
  \/ ~token.wf
  \/ ~token.sig
  \/ (token.exp # 0 /\ token.exp <= t)
  \/ token.purpose # "upload-key"
  \/ token.sub = ""
  \/ token.courseId = ""
  \/ token.assignmentId = ""

\* C6: POST /k/:key answers a token that fails validation, for whichever
\* reason, in its first step with the same 401 and nothing else in the
\* response, and leaves the video rows, the star rows and the provider as they
\* were.
InvalidKeyRejectedAlike ==
  [][\A s \in Slots :
       (ArrivesWithKey(s) /\ Invalid(reqs'[s].tok, now))
       => /\ reqs'[s] = [Idle EXCEPT !.op = "upload", !.pc = "done",
                                     !.status = 401, !.tok = reqs'[s].tok,
                                     !.via = reqs'[s].via]
          /\ UNCHANGED <<users, videos, stars, issued, nextId, stream>>]_vars

\* while a clip is in the store, a signed and unexpired upload key of its owner
\* that lacks the courseId claim was answered 401, and the clip is still there
KeyWithoutClaimRejected ==
  /\ reqs[1].op = "upload" /\ reqs[1].pc = "done" /\ reqs[1].status = 401
  /\ reqs[1].tok.wf /\ reqs[1].tok.sig
  /\ reqs[1].tok.purpose = "upload-key"
  /\ reqs[1].tok.exp > now
  /\ reqs[1].tok.courseId = ""
  /\ \E v \in videos : v.user_id = reqs[1].tok.sub

----------------------------------------------------------------------------
(* Star claims                                                             *)

\* a star request of an authenticated identity on a video it owns is answered
\* 403 in its first step and leaves the stars as they were
SelfStarRejected ==
  \A s \in Slots :
    ( /\ Arrives(s, "star")
      /\ reqs'[s].sub # ""
      /\ \E v \in videos : v.id = reqs'[s].videoId /\ v.user_id = reqs'[s].sub )
    => /\ reqs'[s].pc = "done"
       /\ reqs'[s].status = 403
       /\ stars' = stars

\* no star row pairs an identity with a video that identity owns
NoOwnStar ==
  \A x \in stars : \A v \in videos : v.id = x.video_id => v.user_id # x.user_id

\* C7: a star request by the owner of a video on that video is answered 403
\* and changes no star row, so no star count; and in every reachable state no
\* star row pairs an identity with a video that identity owns.
NoSelfStarring == [][SelfStarRejected]_vars /\ []NoOwnStar

\* the owner of a clip that another identity has starred asked to star it and
\* was answered 403; the clip still has its one star
OwnerTurnedAway ==
  \E s \in Slots :
    /\ reqs[s].op = "star" /\ reqs[s].pc = "done" /\ reqs[s].status = 403
    /\ \E v \in videos : v.id = reqs[s].videoId /\ v.user_id = reqs[s].sub
    /\ StarCount(reqs[s].videoId) = 1

\* C8: when a star request by u on v is answered right after another star
\* request by u on v, with requests served one at a time, the pair (u, v) is
\* starred or not as it was before the first of the two and v has the star
\* count it had then; the first response reported the flipped state and the
\* second reports the original state and the original count.
StarIsToggle ==
  [][\A h \in history :
       ( /\ h.phase = "ended"
         /\ reqs[1].op = "star" /\ reqs[1].pc = "count" /\ reqs'[1].pc = "done"
         /\ h.sub = reqs[1].sub /\ h.videoId = reqs[1].videoId )
       => /\ h.said = ~h.starred
          /\ reqs'[1].status = 200
          /\ reqs'[1].starred = h.starred
          /\ reqs'[1].starCount = h.count
          /\ (Star(h.sub, h.videoId) \in stars') = h.starred
          /\ Cardinality({ x \in stars' : x.video_id = h.videoId }) = h.count]_vars

\* an identity starred a video of another and, with its next request,
\* unstarred it: the second response says not starred, count 0, and the row is
\* gone
ToggledBack ==
  /\ reqs[1].op = "star" /\ reqs[1].pc = "done" /\ reqs[1].status = 200
  /\ ~reqs[1].starred /\ reqs[1].starCount = 0
  /\ \E h \in history : /\ h.phase = "ended" /\ h.paired
                        /\ h.sub = reqs[1].sub /\ h.videoId = reqs[1].videoId
                        /\ h.starred /\ h.count = 1 /\ ~h.said
  /\ Star(reqs[1].sub, reqs[1].videoId) \notin stars

\* C9: a star request that read "not starred" and comes to its insert when the
\* pair has a star row (a concurrent request of the same identity inserted it)
\* adds no second row for the pair and is not answered with an error: it goes
\* on to its count and its 200.
StarRaceIsNoOp ==
  [][\A s \in Slots :
       ( /\ reqs[s].op = "star" /\ reqs[s].pc = "write"
         /\ reqs'[s] # reqs[s]
         /\ reqs[s].existing = NoId
         /\ Star(reqs[s].sub, reqs[s].videoId) \in stars )
       => /\ stars' = stars
          /\ ~(reqs'[s].pc = "done" /\ reqs'[s].status >= 400)]_vars

----------------------------------------------------------------------------
(* Visibility claims                                                       *)

\* C10: the gallery page and the single-video page return a row with
\* hidden = 1 to no viewer whose email is not in the moderator list, the owner
\* of the row included, and return it to a viewer whose email is in the list:
\* the gallery page among the rows of its gallery, the single-video page as
\* its row (its answer is 404 when it returns none).
VisibilityFilter ==
  [][\A s \in Slots : \A v \in videos :
       /\ ( /\ Arrives(s, "gallery") /\ reqs'[s].sub # ""
            /\ v.hidden = 1
            /\ v.course_id = reqs'[s].courseId
            /\ v.assignment_id = reqs'[s].assignmentId )
          => (v.id \in reqs'[s].results <=> isModerator(reqs'[s].email))
       /\ ( /\ Arrives(s, "video") /\ reqs'[s].sub # ""
            /\ v.hidden = 1
            /\ v.id = reqs'[s].videoId )
          => /\ v.id \in reqs'[s].results <=> isModerator(reqs'[s].email)
             /\ ~isModerator(reqs'[s].email)
                  => reqs'[s].pc = "done" /\ reqs'[s].status = 404]_vars

\* the gallery holds a hidden clip and a visible one of another identity; the
\* owner of the hidden clip, not a moderator, has loaded the gallery page and
\* got the visible clip without its own
HiddenFromOwner ==
  /\ reqs[1].op = "gallery" /\ reqs[1].pc = "done" /\ reqs[1].status = 200
  /\ ~isModerator(reqs[1].email)
  /\ \E v, w \in videos :
       /\ v.user_id = reqs[1].sub /\ v.hidden = 1
       /\ v.course_id = reqs[1].courseId /\ v.assignment_id = reqs[1].assignmentId
       /\ w.user_id # reqs[1].sub /\ w.hidden = 0
       /\ w.course_id = reqs[1].courseId /\ w.assignment_id = reqs[1].assignmentId
       /\ reqs[1].results = {w.id}

----------------------------------------------------------------------------
(* Not-found and authorization claims                                      *)

\* no row has the id, or the one that has is hidden and the viewer's email is
\* not in the moderator list
MissingFor(videoId, email) ==
  \A v \in videos : v.id = videoId => (v.hidden = 1 /\ ~isModerator(email))

\* C11: a request of an authenticated identity to the single-video page, star,
\* update-video or delete-video that names a video id which has no row, or
\* whose row is hidden from that identity, is answered 404 in its first step
\* and changes no row.
NotFoundWhenMissingOrHidden ==
  [][\A s \in Slots :
       ( /\ \E op \in {"video", "star", "update", "delete"} : Arrives(s, op)
         /\ reqs'[s].sub # ""
         /\ MissingFor(reqs'[s].videoId, reqs'[s].email) )
       => /\ reqs'[s].pc = "done"
          /\ reqs'[s].status = 404
          /\ UNCHANGED <<users, videos, stars>>]_vars

\* C12: an update-video or delete-video request of an authenticated identity
\* on a video that has a row owned by another identity is answered 403 in its
\* first step and writes nothing: the video rows, the star rows and the
\* provider's copy are unchanged; a moderator is answered the same.
OwnerOnlyMutation ==
  [][\A s \in Slots :
       ( /\ \E op \in {"update", "delete"} : Arrives(s, op)
         /\ reqs'[s].sub # ""
         /\ \E v \in videos : v.id = reqs'[s].videoId /\ v.user_id # reqs'[s].sub )
       => /\ reqs'[s].pc = "done"
          /\ reqs'[s].status = 403
          /\ UNCHANGED <<users, videos, stars, stream>>]_vars

\* the moderator asked to delete a clip of another identity, which it had
\* starred, and was answered 403: the clip and its star are there
ModeratorTurnedAway ==
  /\ reqs[1].op = "delete" /\ reqs[1].pc = "done" /\ reqs[1].status = 403
  /\ isModerator(reqs[1].email)
  /\ \E v \in videos : v.id = reqs[1].videoId /\ v.user_id # reqs[1].sub
  /\ Star(reqs[1].sub, reqs[1].videoId) \in stars

\* the update-video request in slot s writes its row in this step
Updates(s) ==
  /\ reqs[s].op = "update" /\ reqs[s].pc = "update"
  /\ reqs'[s].pc = "done"

\* C13: when the owner's update-video request writes its row, every one of
\* title, description and url that the request omits keeps its stored value;
\* a request that supplies only a title leaves the description and the link
\* of the row as they were.
PartialUpdateKeepsOmitted ==
  [][\A s \in Slots : Updates(s) =>
       \A v \in videos : v.id = reqs[s].videoId =>
         \E w \in videos' :
           /\ w.id = v.id
           /\ reqs[s].patch.title = <<>> => w.title = v.title
           /\ reqs[s].patch.description = <<>> => w.description = v.description
           /\ reqs[s].patch.url = <<>> => w.url = v.url]_vars

\* the email is one of the configured moderator emails, whatever its case
Configured(email) ==
  \E i \in 1..Len(MODERATOR_EMAILS) :
    toLowerCase(email) = toLowerCase(trim(MODERATOR_EMAILS[i]))

\* the hide-video request in slot s writes in this step
Flips(s) ==
  /\ reqs[s].op = "hide" /\ reqs[s].pc = "flip"
  /\ reqs'[s].pc = "done"

\* C14: a hide-video request of an identity whose email is not a configured
\* moderator email is answered 403 and changes no row; the write of a
\* moderator's hide-video request flips the hidden flag of the referenced row
\* and changes nothing else: no other row, no other field of that row, no star.
ModeratorOnlyHiding ==
  [][\A s \in Slots :
       /\ ( Arrives(s, "hide") /\ reqs'[s].sub # "" /\ ~Configured(reqs'[s].email) )
          => /\ reqs'[s].pc = "done"
             /\ reqs'[s].status = 403
             /\ UNCHANGED <<users, videos, stars, stream>>
       /\ Arrives(s, "hide") => UNCHANGED <<users, videos, stars, stream>>
       /\ Flips(s)
          => /\ Configured(reqs[s].email)
             /\ \A v \in videos :
                  IF v.id = reqs[s].videoId
                  THEN [v EXCEPT !.hidden = 1 - v.hidden] \in videos'
                  ELSE v \in videos'
             /\ Cardinality(videos') = Cardinality(videos)
             /\ UNCHANGED <<users, stars, stream>>]_vars

\* a moderator has hidden a starred, titled clip next to a clip that is shown
HiddenByModerator ==
  /\ reqs[1].op = "hide" /\ reqs[1].pc = "done" /\ reqs[1].status = 200
  /\ \E v \in videos :
       /\ v.id = reqs[1].videoId /\ v.hidden = 1 /\ v.title # ""
       /\ StarCount(v.id) = 1
       /\ \E w \in videos : w.id # v.id /\ w.hidden = 0

----------------------------------------------------------------------------
(* Failure claims                                                          *)

\* the provider call of the upload in slot s returns in this step without
\* having created a video
ProviderFails(s) ==
  /\ reqs[s].op = "upload" /\ reqs[s].pc = "open"
  /\ reqs'[s] # reqs[s]
  /\ nextId' = nextId

\* C15: when the provider returns no channel location (chunked paths) or an
\* unsuccessful result (single-shot path), the upload initiation is answered
\* 500 in that step, it has no video id and no video row is inserted; a row is
\* only ever inserted by a request the provider gave a video id.
ProviderFailureCreatesNoRow ==
  [][\A s \in Slots :
       /\ ProviderFails(s)
          => /\ reqs'[s].pc = "done"
             /\ reqs'[s].status = 500
             /\ reqs'[s].newId = NoId
             /\ UNCHANGED videos
       /\ (videos' \ videos) # {}
          => \E t \in Slots : /\ reqs[t].op = "upload" /\ reqs[t].pc = "insert"
                              /\ reqs[t].newId # NoId
                              /\ \A v \in videos' \ videos : v.id = reqs[t].newId]_vars

\* the provider failed an upload while a clip is stored elsewhere: the caller
\* has a 500 and the gallery no row of the identity
ProviderFailedAfterDelete ==
  /\ reqs[1].op = "upload" /\ reqs[1].pc = "done" /\ reqs[1].status = 500
  /\ reqs[1].newId = NoId
  /\ RowsOf(reqs[1].sub, reqs[1].courseId, reqs[1].assignmentId) = {}
  /\ nextId > 1
  /\ videos # {}

\* the request arriving in slot s is answered 400 in its first step, having
\* called the provider for nothing and written nothing
RejectedAtOnce(s) ==
  /\ reqs'[s].pc = "done"
  /\ reqs'[s].status = 400
  /\ UNCHANGED <<users, videos, stars, issued, nextId, stream>>

\* C16: a session upload initiation with an empty courseId or assignmentId, a
\* create-upload-key request with an empty coordinate and a single-shot token
\* upload with an empty body (every single-shot upload of SpecValidation) are
\* answered 400 in their first step, before the remote delete, any other
\* provider call and any store write: the clips of the identity stay.
ValidationHasNoSideEffects ==
  [][\A s \in Slots :
       /\ ( /\ Arrives(s, "upload") /\ reqs'[s].via = "session"
            /\ reqs'[s].sub # ""
            /\ reqs'[s].courseId = "" \/ reqs'[s].assignmentId = "" )
          => RejectedAtOnce(s)
       /\ ( /\ Arrives(s, "createKey")
            /\ reqs'[s].sub # ""
            /\ reqs'[s].courseId = "" \/ reqs'[s].assignmentId = "" )
          => RejectedAtOnce(s)
       /\ ( /\ Arrives(s, "upload") /\ reqs'[s].via = "key-plain"
            /\ reqs'[s].sub # "" )
          => RejectedAtOnce(s)]_vars

\* an empty single-shot upload with a good key was answered 400 and the clip
\* of the key's identity in the key's gallery is stored, here and remotely
EmptyBodyKeptClip ==
  /\ reqs[1].op = "upload" /\ reqs[1].via = "key-plain"
  /\ reqs[1].pc = "done" /\ reqs[1].status = 400
  /\ reqs[1].sub # ""
  /\ RowsOf(reqs[1].sub, reqs[1].tok.courseId, reqs[1].tok.assignmentId) # {}

----------------------------------------------------------------------------
(* Cascade claims                                                          *)

\* every star row references a video row
StarsReferToVideos == \A x \in stars : \E v \in videos : v.id = x.video_id

\* C17: in every state every star row references an existing video row; a
\* step that removes a video row, by delete-video or by the replacement of an
\* upload, removes the star rows of that video, and a row that is inserted has
\* no stars; also when a star request is under way on the video.
StarsFollowVideo ==
  /\ []StarsReferToVideos
  /\ [][/\ \A v \in videos :
             (\A w \in videos' : w.id # v.id)
               => \A x \in stars' : x.video_id # v.id
        /\ \A w \in videos' \ videos :
             (\A v \in videos : v.id # w.id)
               => \A x \in stars' : x.video_id # w.id]_vars

\* a star request found its video, the video was deleted or replaced before
\* the star was written, and the write failed: the video is gone without stars
StarLostItsVideo ==
  \E s \in Slots :
    /\ reqs[s].op = "star" /\ reqs[s].pc = "done" /\ reqs[s].status = 500
    /\ RowsById(reqs[s].videoId) = {}
    /\ videos # {}
    /\ stars = {}

----------------------------------------------------------------------------
(* Login claims                                                            *)

\* the organizational-domain claim the provider gives for the identity sub
HdOf(sub) == (CHOOSE i \in IdentityInfos : i.sub = sub).hd

\* C18: the callback of an identity whose domain claim is absent or differs
\* from the allowed domain is answered 403 with no session token and writes no
\* identity row; every identity row and every token that was issued belongs
\* to an identity whose domain claim equals the allowed domain.
DomainCheckPrecedesSession ==
  /\ [](\A u \in users : HdOf(u) = ALLOWED_DOMAIN)
  /\ [](\A t \in issued : HdOf(t.sub) = ALLOWED_DOMAIN)
  /\ [][\A s \in Slots :
          (Arrives(s, "callback") /\ HdOf(reqs'[s].sub) # ALLOWED_DOMAIN)
            => /\ reqs'[s].pc = "done"
               /\ reqs'[s].status = 403
               /\ reqs'[s].tok = NoToken
               /\ UNCHANGED <<users, issued>>]_vars

\* an identity without a domain claim was turned away after another had
\* logged in: it has no row and no token
NoDomainTurnedAway ==
  /\ reqs[1].op = "callback" /\ reqs[1].pc = "done" /\ reqs[1].status = 403
  /\ HdOf(reqs[1].sub) = ""
  /\ reqs[1].sub \notin users
  /\ \A t \in issued : t.sub # reqs[1].sub
  /\ users # {}

----------------------------------------------------------------------------
(* Replacement claims                                                      *)

\* the upload in slot s was given the last video id: in SpecReconcile it
\* arrived after the overlapping uploads, with no request under way, and
\* nothing arrives until it is answered
RunsAlone(s) ==
  /\ reqs[s].op = "upload"
  /\ reqs[s].newId = VideoIds[MaxVideos]
  /\ \A t \in Slots \ {s} : Free(t)

\* C19: a successful upload initiation of an identity into a gallery that
\* runs alone, after overlapping uploads may have left two rows for the pair,
\* leaves exactly one row for the pair, the one it inserts.
ReconciledByNextUpload ==
  [][\A s \in Slots :
       (RunsAlone(s) /\ reqs[s].pc = "insert" /\ Succeeded(reqs'[s]))
         => { v.id : v \in { w \in videos' :
                               /\ w.user_id = reqs[s].sub
                               /\ w.course_id = reqs[s].courseId
                               /\ w.assignment_id = reqs[s].assignmentId } }
              = {reqs[s].newId}]_vars

\* the upload in slot s is past its delete: at the provider call or the insert
PastDelete(s) ==
  reqs[s].op = "upload" /\ reqs[s].pc \in {"open", "insert"}

\* C20: in an upload initiation with no other request under way for the pair,
\* the local delete of the old row comes before the provider call and before
\* the insert: at every step of the request the pair has at most one row, and
\* from the delete until the insert it has none, so a request that stops
\* there leaves zero rows, never two; the insert makes it one.
DeleteThenInsert ==
  /\ [](\A s \in Slots :
          /\ reqs[s].op = "upload" => Cardinality(Target(reqs[s])) <= 1
          /\ PastDelete(s) => Target(reqs[s]) = {})
  /\ [][\A s \in Slots :
          /\ (reqs[s].op = "upload" /\ reqs[s].pc = "delete" /\ reqs'[s] # reqs[s])
               => /\ PastDelete(s)'
                  /\ \A v \in videos' : v.id # reqs[s].existing
                  /\ nextId' = nextId
          /\ (PastDelete(s) /\ Succeeded(reqs'[s]))
               => Cardinality(Target(reqs[s])') = 1]_vars

\* the old row of the pair is deleted and the new one not yet inserted: the
\* pair has no row while the request is at the provider
DeletedNotYetInserted ==
  /\ reqs[1].op = "upload" /\ reqs[1].pc = "open"
  /\ reqs[1].existing # NoId
  /\ Target(reqs[1]) = {}
  /\ videos # {}

----------------------------------------------------------------------------
(* Upload outcome claims                                                   *)

\* the chunked upload in slot s is answered 201 in this step
ChannelReturned(s) ==
  /\ reqs[s].op = "upload" /\ reqs[s].via \in {"session", "key-tus"}
  /\ reqs[s].pc # "done"
  /\ reqs'[s].pc = "done" /\ reqs'[s].status = 201

RemoteCleanupNeverBlocks ==
  [][\A s \in Slots :
       /\ (reqs[s].op = "delete" /\ reqs[s].pc = "remove" /\ reqs'[s] # reqs[s])
            => /\ reqs'[s].pc = "done" /\ reqs'[s].status = 200
               /\ \A v \in videos' : v.id # reqs[s].videoId
       /\ (reqs[s].op = "upload" /\ reqs[s].pc = "delete" /\ reqs'[s] # reqs[s])
            => /\ reqs'[s].pc = "open"
               /\ reqs'[s].remote \in {"ok", "failed"}
               /\ \A v \in videos' : v.id # reqs[s].existing]_vars

\* delete-video was answered 200 and the row is gone while the provider still
\* has the video: the remote delete failed
RemoteCopyLeftBehind ==
  /\ reqs[1].op = "delete" /\ reqs[1].pc = "done" /\ reqs[1].status = 200
  /\ reqs[1].videoId \in stream
  /\ RowsById(reqs[1].videoId) = {}

\* what a step of the upload r does to the video and star rows, whatever the
\* path of r: n is the request after the step
SameOnEveryPath(r, n) ==
  CASE r.pc \in {"idle", "done"} ->
         /\ UNCHANGED <<videos, stars>>
         /\ n.pc # "done" =>
              IF Target(n) = {}
              THEN n.pc = "open" /\ n.existing = NoId
              ELSE n.pc = "delete" /\ n.existing \in { v.id : v \in Target(n) }
    [] r.pc = "delete" ->
         /\ n.pc = "open"
         /\ videos' = { v \in videos : v.id # r.existing }
         /\ stars' = { x \in stars : x.video_id # r.existing }
    [] r.pc = "open" ->
         /\ UNCHANGED <<videos, stars>>
         /\ IF nextId' = nextId
            THEN n.pc = "done" /\ n.status = 500
            ELSE n.pc = "insert" /\ n.newId = VideoIds[nextId]
    [] OTHER ->
         /\ n.pc = "done" /\ n.status \in {200, 201}
         /\ videos' = videos \cup
              {[id |-> r.newId, user_id |-> r.sub, course_id |-> r.courseId,
                assignment_id |-> r.assignmentId, title |-> "",
                description |-> "", url |-> "", duration |-> Null,
                hidden |-> 0, created_at |-> now]}
         /\ stars' = stars

\* C23: from the same video and star rows, for the same identity and gallery
\* and the same provider outcome (a video id, or a failure), the token
\* single-shot path, the token chunked path and the session chunked path take
\* the same steps on the store and end with the same video and star rows:
\* every step of an upload is the one function of the rows, the identity, the
\* gallery and the outcome, in which the path does not occur.
SurfacesAgree ==
  [][\A s \in Slots :
       (reqs'[s] # reqs[s] /\ reqs'[s].op = "upload")
         => SameOnEveryPath(reqs[s], reqs'[s])]_vars

\* each of the three paths has put a clip of s1 in the gallery, and s2 has
\* starred the one that is left
EveryPathReplaced ==
  /\ { h.via : h \in history } = {"session", "key-tus", "key-plain"}
  /\ \A h \in history : h.sub = "s1"
  /\ reqs[1].op = "star" /\ reqs[1].pc = "done" /\ reqs[1].status = 200
  /\ reqs[1].starred
  /\ Cardinality(videos) = 1
  /\ Cardinality(stars) = 1

----------------------------------------------------------------------------
(* Backfill claims                                                         *)

\* the row of id is shown to everybody, has no duration, and the provider
\* reports the video ready
AwaitsDuration(id) ==
  /\ \E v \in videos : v.id = id /\ v.hidden = 0 /\ v.duration = Null
  /\ id \in stream

\* C24: under repeated loads of the gallery page, every visible row of the
\* gallery without a duration whose video the provider reports ready gets
\* its duration stored, however many other rows are in processing, rows that
\* never become ready included.
BacklogSelfHeals ==
  \A id \in BacklogIds :
    AwaitsDuration(id) ~> (\E v \in videos : v.id = id /\ v.duration # Null)

\* the page request in slot s is at its backfill
Backfilling(s) ==
  reqs[s].op \in {"gallery", "video"} /\ reqs[s].pc = "backfill"

\* C25: one page load has at most 10 status queries to make, whatever the
\* number of rows in processing, and makes each once; a step of the backfill
\* writes nothing but the duration of a row it queries, only when the
\* provider has the video ready, and the duration it writes is not NULL.
BackfillBoundedAndNarrow ==
  /\ [](\A s \in Slots :
          Backfilling(s) => Cardinality(reqs[s].pending) <= maxDurationChecksPerLoad)
  /\ [][\A s \in Slots :
          (Backfilling(s) /\ reqs'[s] # reqs[s])
            => /\ \E id \in reqs[s].pending :
                    /\ reqs'[s].pending = IF reqs'[s].pc = "done" THEN {}
                                          ELSE reqs[s].pending \ {id}
                    /\ \A v \in videos :
                         \/ v \in videos'
                         \/ /\ v.id = id
                            /\ id \in stream
                            /\ \E d \in 1..100 :
                                 [v EXCEPT !.duration = <<d>>] \in videos'
               /\ Cardinality(videos') = Cardinality(videos)
               /\ UNCHANGED <<users, stars, stream>>]_vars

\* a page load of a gallery with more than 10 rows without a duration is at
\* its backfill, with 10 queries at most, and has stored the duration of the
\* newest clip
CappedLoad ==
  /\ reqs[1].op = "gallery" /\ reqs[1].pc = "backfill"
  /\ Cardinality({ v \in videos : v.duration = Null }) > maxDurationChecksPerLoad
  /\ \E v \in videos : v.id \notin reqs[1].pending /\ v.duration = ReadyDuration

----------------------------------------------------------------------------
(* Authentication claims                                                   *)

\* the token is well formed, signed with the secret and not expired at t
Genuine(token, t) ==
  /\ token # NoToken
  /\ token.wf /\ token.sig
  /\ token.exp > t

\* the request carries what its route asks for: a token that verifies, which
\* on POST /k/:key is an upload key with its claims
Carries(r, t) ==
  /\ Genuine(r.tok, t)
  /\ r.via \in {"key-tus", "key-plain"}
       => /\ r.tok.purpose = "upload-key"
          /\ r.tok.sub # "" /\ r.tok.courseId # "" /\ r.tok.assignmentId # ""

----------------------------------------------------------------------------
(* Scope claims                                                            *)

\* the row belongs to the identity and the gallery of the upload r
InScope(v, r) ==
  /\ v.user_id = r.tok.sub
  /\ v.course_id = r.courseId
  /\ v.assignment_id = r.assignmentId

\* C27: a step of an upload initiation, by session or by key, deletes and
\* inserts only video rows of the identity of its token in its gallery, which
\* for a key is the gallery of the key's claims, and removes only the stars of
\* a row it deletes; every other video row, every other star and every
\* identity row is unchanged. A key that create-upload-key issues carries the
\* subject and email of the session that asked for it and the gallery named
\* in the request.
UploadScope ==
  [][\A s \in Slots :
       /\ (reqs[s].op = "upload" /\ reqs[s].pc \notin {"idle", "done"}
             /\ reqs'[s] # reqs[s])
            => /\ \A v \in (videos \ videos') \cup (videos' \ videos) :
                    InScope(v, reqs[s])
               /\ reqs[s].via \in {"key-tus", "key-plain"}
                    => /\ reqs[s].courseId = reqs[s].tok.courseId
                       /\ reqs[s].assignmentId = reqs[s].tok.assignmentId
               /\ stars' \subseteq stars
               /\ \A x \in stars \ stars' :
                    \E v \in videos \ videos' : v.id = x.video_id
               /\ UNCHANGED users
       /\ Arrives(s, "upload") => UNCHANGED <<users, videos, stars>>
       /\ (Arrives(s, "createKey") /\ reqs'[s].status = 200)
            => /\ \E t \in issued' :
                    /\ t.purpose = "upload-key"
                    /\ t.sub = reqs'[s].tok.sub
                    /\ t.email = reqs'[s].tok.email
                    /\ t.courseId = reqs'[s].courseId
                    /\ t.assignmentId = reqs'[s].assignmentId
                    /\ issued' = issued \cup {t}
               /\ UNCHANGED <<users, videos, stars>>]_vars

\* s1 has replaced its clip in a1 with a key for a1 while it has a clip in a2:
\* the clip in a2 is there
OtherGalleryUntouched ==
  /\ reqs[1].op = "upload" /\ reqs[1].via = "key-plain"
  /\ reqs[1].pc = "done" /\ reqs[1].status = 200
  /\ reqs[1].newId = VideoIds[3]
  /\ \E v \in videos : v.user_id = reqs[1].sub /\ v.assignment_id # reqs[1].assignmentId
  /\ Cardinality(videos) = 2

\* C28: when an upload initiation has found and deleted an existing row of
\* its identity in its gallery and the provider then fails, the request ends
\* in a 500 and restores nothing: the deleted row and its stars are gone and
\* the identity has no row in the gallery.
FailureKeepsTheDelete ==
  [][\A s \in Slots :
       (ProviderFails(s) /\ reqs[s].existing # NoId)
         => /\ reqs'[s].pc = "done" /\ reqs'[s].status = 500
            /\ \A v \in videos' : v.id # reqs[s].existing
            /\ \A x \in stars' : x.video_id # reqs[s].existing
            /\ { v \in videos' : /\ v.user_id = reqs[s].sub
                                 /\ v.course_id = reqs[s].courseId
                                 /\ v.assignment_id = reqs[s].assignmentId } = {}]_vars

\* the only uploader had a clip, its next upload was answered 500, and no
\* clip and no star are stored
FailedUploadLostTheClip ==
  /\ reqs[1].op = "upload" /\ reqs[1].pc = "done" /\ reqs[1].status = 500
  /\ reqs[1].newId = NoId
  /\ nextId > 1
  /\ "s2" \in users
  /\ videos = {} /\ stars = {}

----------------------------------------------------------------------------
(* Moderation claims                                                       *)

\* C29: a video row that is inserted has hidden = 0 and is shown to
\* non-moderators, whatever the flag of the row it replaces; the hidden flag
\* of a row that stays changes only in the write of a hide-video request of a
\* moderator for that row.
ReplacementResetsModeration ==
  [][/\ \A w \in videos' :
          (\A v \in videos : v.id # w.id) => (w.hidden = 0 /\ Visible(w, FALSE))
     /\ \A v \in videos, w \in videos' :
          (v.id = w.id /\ v.hidden # w.hidden)
            => \E s \in Slots : /\ Flips(s)
                                /\ reqs[s].videoId = v.id
                                /\ Configured(reqs[s].email)]_vars

\* the moderator hid the clip of s1 while s1 was uploading again: the hide
\* was answered hidden, and the clip that replaced it is shown
HiddenClipReplaced ==
  /\ reqs[2].op = "hide" /\ reqs[2].pc = "done" /\ reqs[2].status = 200
  /\ reqs[2].hidden
  /\ reqs[1].op = "upload" /\ reqs[1].pc = "done" /\ reqs[1].status = 201
  /\ RowsById(reqs[2].videoId) = {}
  /\ \E v \in videos : v.id = reqs[1].newId /\ v.hidden = 0 /\ v.user_id = "s1"

\* C30: the write of a hide-video request flips the stored flag of its row in
\* one step, so that k completed requests leave the flag flipped k times in
\* any interleaving, and the hidden value the request returns is the stored
\* flag of the row right after that write.
HideToggleUnderConcurrency ==
  [][\A s \in Slots : Flips(s) =>
       \A v \in videos : v.id = reqs[s].videoId =>
         \E w \in videos' :
           /\ w.id = v.id
           /\ w.hidden = 1 - v.hidden
           /\ reqs'[s].hidden = (w.hidden = 1)]_vars

====
